---------------------------- MODULE Spec2Model ----------------------------
(***************************************************************************)
(* A model of the `find` crate: the Finder builder (src/src/lib.rs), its   *)
(* two terminal operations find and print_find (a breadth-first walk of a  *)
(* directory tree, bounded in depth, filtering files by a chain of         *)
(* predicates) and the command line program around it (src/src/main.rs).   *)
(*                                                                         *)
(* Path strings are sequences of one-character strings, so that            *)
(* ends_with, to_lowercase, file_name and the regex search are computed    *)
(* on the characters.  Every file name of the model is valid Unicode, so   *)
(* OsString::into_string() always succeeds.                                *)
(***************************************************************************)
EXTENDS Integers, Sequences, FiniteSets, TLC

\* Largest depth argument given to find / print_find.
MaxDepth == 1

\* Largest number of predicates registered on one Finder.
MaxFilters == 2

\* The most entries the other process removes during a run.
MaxRemovals == 1

-----------------------------------------------------------------------------
(* Strings *)

Sep == "/"

\* The root path every Finder of the model is built on.
Root == <<"r">>

\* The entry names a directory of the model may hold.
DirName == <<"d">>
NameF == <<"f", ".", "r">>
NameG == <<"G", ".", "R">>
FileNames == {NameF, NameG}

\* DirEntry::path(): the directory's path joined with the entry's name.
Join(p, name) == p \o <<Sep>> \o name

UpperChars == <<"G", "R", "F", "D">>
LowerChars == <<"g", "r", "f", "d">>

\* char::to_lowercase on the model's alphabet.
LowerChar(c) ==
    IF \E i \in 1..Len(UpperChars) : UpperChars[i] = c
    THEN LowerChars[CHOOSE i \in 1..Len(UpperChars) : UpperChars[i] = c]
    ELSE c

\* str::to_lowercase.
ToLowercase(s) == [i \in 1..Len(s) |-> LowerChar(s[i])]

\* str::ends_with.
EndsWith(s, suffix) ==
    /\ Len(suffix) <= Len(s)
    /\ SubSeq(s, Len(s) - Len(suffix) + 1, Len(s)) = suffix

\* str::contains.
Contains(s, needle) ==
    \E i \in 1..(Len(s) - Len(needle) + 1) :
        SubSeq(s, i, i + Len(needle) - 1) = needle

\* Path::file_name: the text after the last separator.
FileName(s) ==
    LET seps == {i \in 1..Len(s) : s[i] = Sep}
        last == IF seps = {} THEN 0 ELSE CHOOSE i \in seps : \A j \in seps : j <= i
    IN  SubSeq(s, last + 1, Len(s))

\* The number of directory components between the root and the entry named
\* by path string s: the separators of s beyond the root's own, minus one.
SepCount(s) == Cardinality({i \in 1..Len(s) : s[i] = Sep})

-----------------------------------------------------------------------------
(* Regular expressions: the fragment ^ (start), $ (end), . (any character) *)
(* and literal characters; an unclosed [ does not compile.                 *)

\* Regex::new: whether the pattern compiles.
Compiles(pattern) == \A i \in 1..Len(pattern) : pattern[i] # "["

\* Regex::new on a pattern that compiles.
Compile(pattern) ==
    LET s == Len(pattern) > 0 /\ pattern[1] = "^"
        e == Len(pattern) > (IF s THEN 1 ELSE 0) /\ pattern[Len(pattern)] = "$"
    IN  [start |-> s,
         end   |-> e,
         body  |-> SubSeq(pattern, IF s THEN 2 ELSE 1,
                          IF e THEN Len(pattern) - 1 ELSE Len(pattern))]

\* Whether the body matches text at position i.
MatchAt(body, text, i) ==
    /\ i + Len(body) - 1 <= Len(text)
    /\ \A k \in 1..Len(body) : body[k] = "." \/ body[k] = text[i + k - 1]

\* Regex::is_match: a search, not a full match.
IsMatch(re, text) ==
    \E i \in 1..(Len(text) + 1) :
        /\ MatchAt(re.body, text, i)
        /\ re.start => i = 1
        /\ re.end => i + Len(re.body) - 1 = Len(text)

-----------------------------------------------------------------------------
(* The filesystem.  A filesystem is a record                                *)
(*   kind    : path -> what the path names,                                 *)
(*   listing : the order in which read_dir yields the entry names,          *)
(*   flaky   : the paths whose metadata lookup fails when a predicate makes *)
(*             it (a transient failure after the path was classified),      *)
(*   link    : the level of the spine that is a symbolic link to the root   *)
(*             (a cycle), or 0 when the tree has no link.                   *)
(* The trees of the model are a spine r, r/d, r/d/d, ... of directories,    *)
(* each holding the same regular files, ended by an entry of any kind.      *)
(* The length of a file follows from its name and its place in the tree.    *)

\* The deepest level of the spine: files exist one level below MaxDepth.
TreeHeight == MaxDepth + 2

RECURSIVE Spine(_)
Spine(k) == IF k = 0 THEN Root ELSE Join(Spine(k - 1), DirName)

Universe ==
    {Spine(k) : k \in 0..TreeHeight}
        \cup {Join(Spine(k), n) : k \in 0..TreeHeight, n \in FileNames}

\* The tree whose entry r/d is a symbolic link to r ("link_root") has a
\* cycle: r/d, r/d/d, ... all name the root.
\* "none": no such entry.  "broken": a dangling symbolic link.  "special":
\* an entry that exists and is neither a directory nor a regular file.
\* "dir_eacces": a directory whose read_dir call fails.  "dir_eio": a
\* directory whose read_dir succeeds and whose second entry read fails.
Kinds == {"none", "file", "dir", "special", "broken", "dir_eacces", "dir_eio"}
DirKinds == {"dir", "dir_eacces", "dir_eio"}
Tails == Kinds \ {"dir"}

Listings == {<<DirName>>, <<DirName, NameF, NameG>>, <<NameG, NameF, DirName>>}

Range(seq) == {seq[i] : i \in 1..Len(seq)}

\* The tree with h readable directories on its spine, ended by `tail`.
Tree(h, tail, listing, flaky) ==
    [kind |->
        [p \in Universe |->
            IF \E k \in 0..TreeHeight : p = Spine(k)
            THEN LET k == CHOOSE j \in 0..TreeHeight : p = Spine(j)
                 IN  IF k < h THEN "dir" ELSE IF k = h THEN tail ELSE "none"
            ELSE LET k == CHOOSE j \in 0..TreeHeight :
                              \E n \in FileNames : p = Join(Spine(j), n)
                 IN  IF /\ k < h \/ (k = h /\ tail = "dir_eio")
                        /\ FileName(p) \in Range(listing)
                     THEN "file" ELSE "none"],
     listing |-> listing,
     flaky |-> flaky,
     link |-> IF tail = "link_root" THEN h ELSE 0]

\* The root may be a regular file or a special entry; below it, regular
\* files are f.r and G.R, and the entry that is neither directory nor file
\* is a dangling link.
FileSystems ==
    {Tree(0, tail, listing, {}) : tail \in Tails, listing \in Listings}
    \cup {Tree(h, tail, listing, {}) :
        h \in 1..TreeHeight, tail \in Tails \ {"file", "special"},
        listing \in Listings}
    \cup {Tree(h, "none", <<DirName, NameF, NameG>>, {Join(Root, NameF)}) :
        h \in 1..TreeHeight}
    \cup {Tree(1, "link_root", <<DirName, NameF, NameG>>, {})}

\* The path that p names once the symbolic link on it, if any, is followed.
RECURSIVE Resolve(_, _)
Resolve(F, p) ==
    IF F.link = 0 THEN p
    ELSE LET l == Spine(F.link)
         IN  IF /\ Len(p) >= Len(l)
                /\ SubSeq(p, 1, Len(l)) = l
                /\ Len(p) = Len(l) \/ p[Len(l) + 1] = Sep
             THEN Resolve(F, Root \o SubSeq(p, Len(l) + 1, Len(p)))
             ELSE p

\* What p names; is_dir, is_file, exists and read_dir follow symbolic links.
Kind(F, p) ==
    LET q == Resolve(F, p)
    IN  IF q \in DOMAIN F.kind THEN F.kind[q] ELSE "none"

\* Path::exists: follows symbolic links, so a dangling link does not exist.
Exists(F, p) == Kind(F, p) \notin {"none", "broken"}

\* Path::is_dir.
IsDirOrGone(F, p) == Kind(F, p) \in DirKinds \cup {"none"}
IsDir(F, p) == Kind(F, p) \in DirKinds

\* Path::is_file.
IsNotDir(F, p) == Kind(F, p) \notin DirKinds
IsFile(F, p) == Kind(F, p) = "file"

\* The entries of directory p in the order read_dir yields them.
Children(F, p) ==
    LET all == [i \in 1..Len(F.listing) |-> Join(p, F.listing[i])]
        Present(q) == Kind(F, q) # "none"
    IN  SelectSeq(all, Present)

\* fs::read_dir(p) and the iteration over its entries: the children yielded
\* before an error, and whether an error ended the iteration.
ReadDir(F, p) ==
    LET ch == Children(F, p)
    IN  CASE Kind(F, p) = "dir" -> [ok |-> TRUE, entries |-> ch]
          [] Kind(F, p) = "dir_eio" ->
                [ok |-> FALSE,
                 entries |-> SubSeq(ch, 1, IF Len(ch) > 0 THEN 1 ELSE 0)]
          [] OTHER -> [ok |-> FALSE, entries |-> <<>>]

\* Metadata::len: f.r holds as many bytes as it has directories above it
\* below the root, G.R two, any other entry one.
FileLen(p) ==
    IF FileName(p) = NameF THEN SepCount(p) - 1
    ELSE IF FileName(p) = NameG THEN 2 ELSE 1

\* fs::metadata(p) as a predicate calls it.
Metadata(F, p) ==
    IF Exists(F, p) /\ p \notin F.flaky
    THEN [ok |-> TRUE, len |-> FileLen(Resolve(F, p))]
    ELSE [ok |-> FALSE, len |-> 0]

-----------------------------------------------------------------------------
(* The Finder: its root and its chain of predicates.  A predicate is a     *)
(* record [kind, arg]: the closure a builder method registers, with the    *)
(* value it captured.                                                       *)

\* The closure of size_less_than_or_eq on the Result m of fs::metadata.
SizeLessFailsOpen(m, bytes) == IF m.ok THEN m.len <= bytes ELSE TRUE
SizeLess(m, bytes) == IF m.ok THEN m.len <= bytes ELSE FALSE

\* The closure of size_greater_than_or_eq on the Result m of fs::metadata.
SizeGreaterStrict(m, bytes) == IF m.ok THEN m.len > bytes ELSE FALSE
SizeGreater(m, bytes) == IF m.ok THEN m.len >= bytes ELSE FALSE

\* The text the closure of matches_regex searches: PathBuf::from(s).file_name().
RegexSubjectWholePath(s) == s
RegexSubject(s) == FileName(s)

\* Invoking predicate p on path string s: its verdict and the filesystem
\* calls it makes.
Apply(F, p, s) ==
    CASE p.kind = "size_le" ->
            [val |-> SizeLess(Metadata(F, s), p.arg),
             sys |-> << <<"metadata", s>> >>]
      [] p.kind = "size_ge" ->
            [val |-> SizeGreater(Metadata(F, s), p.arg),
             sys |-> << <<"metadata", s>> >>]
      [] p.kind = "ext" ->
            [val |-> EndsWith(s, p.arg), sys |-> <<>>]
      [] p.kind = "ext_ci" ->
            [val |-> EndsWith(ToLowercase(s), ToLowercase(p.arg)), sys |-> <<>>]
      [] p.kind = "regex" ->
            [val |-> IsMatch(p.arg, RegexSubject(s)), sys |-> <<>>]
      [] p.kind = "contains" ->
            [val |-> Contains(s, p.arg), sys |-> <<>>]

\* Iterator::all over filters[i..]: stops at the first predicate that
\* returns false.  calls lists the predicates invoked, in order.
RECURSIVE AllFrom(_, _, _, _)
AllFrom(F, filters, s, i) ==
    IF i > Len(filters)
    THEN [val |-> TRUE, calls |-> <<>>, sys |-> <<>>]
    ELSE LET r == Apply(F, filters[i], s)
         IN  IF ~r.val
             THEN [val |-> FALSE, calls |-> <<i>>, sys |-> r.sys]
             ELSE LET rest == AllFrom(F, filters, s, i + 1)
                  IN  [val |-> rest.val,
                       calls |-> <<i>> \o rest.calls,
                       sys |-> r.sys \o rest.sys]

\* The chain walked from its last predicate to its first.
MeetsFilterCriteriaReversed(F, filters, s) ==
    LET n == Len(filters)
        r == AllFrom(F, [i \in 1..n |-> filters[n + 1 - i]], s, 1)
    IN  [val |-> r.val,
         calls |-> [k \in 1..Len(r.calls) |-> n + 1 - r.calls[k]],
         sys |-> r.sys]

\* The chain cut to its first predicate.
MeetsFirstFilter(F, filters, s) ==
    AllFrom(F, SubSeq(filters, 1, IF Len(filters) > 0 THEN 1 ELSE 0), s, 1)
MeetsFilterCriteria(F, filters, s) == AllFrom(F, filters, s, 1)

\* A builder method returns [tag, fd, ev]: "ok" and the Finder it returns,
\* or "panic"; ev lists the filesystem calls and predicate invocations the
\* method itself made.
FinderNew(dir) ==
    [tag |-> "ok", fd |-> [directory |-> dir, filters |-> <<>>], ev |-> <<>>]

\* A filter that tries the predicate on the root as it registers it.
FilterEager(fd, predicate) ==
    [tag |-> "ok",
     fd |-> [fd EXCEPT !.filters = Append(@, predicate)],
     ev |-> << <<"invoke", fd.directory>> >>]
Filter(fd, predicate) ==
    [tag |-> "ok",
     fd |-> [fd EXCEPT !.filters = Append(@, predicate)],
     ev |-> <<>>]

SizeLessThanOrEq(fd, bytes) == Filter(fd, [kind |-> "size_le", arg |-> bytes])

SizeGreaterThanOrEq(fd, bytes) == Filter(fd, [kind |-> "size_ge", arg |-> bytes])

\* has_extension comparing as has_extension_case_insensitive does.
HasExtensionFolded(fd, ext) == Filter(fd, [kind |-> "ext_ci", arg |-> ext])
HasExtension(fd, ext) == Filter(fd, [kind |-> "ext", arg |-> ext])

HasExtensionCaseInsensitive(fd, ext) == Filter(fd, [kind |-> "ext_ci", arg |-> ext])

\* Regex::new(pattern).unwrap() panics on a pattern that does not compile.
MatchesRegex(fd, pattern) ==
    IF Compiles(pattern)
    THEN Filter(fd, [kind |-> "regex", arg |-> Compile(pattern)])
    ELSE [tag |-> "panic", fd |-> fd, ev |-> <<>>]

-----------------------------------------------------------------------------
(* The terminal operations, one step at a time.  A frame holds the locals   *)
(* of one call: at is the position ("start", "while": the test of the       *)
(* outer loop, "for": one pass of the inner loop, "ret": returned), sys the *)
(* filesystem calls made and calls the predicate invocations <<i, path>>.   *)

NoRet == [tag |-> "none", kind |-> "", files |-> <<>>]
OkFiles(files) == [tag |-> "Ok", kind |-> "", files |-> files]
OkUnit == [tag |-> "Ok", kind |-> "", files |-> <<>>]
\* An Err carries the error alone: the locals of the call are dropped.
Err(kind) == [tag |-> "Err", kind |-> kind, files |-> <<>>]

FindFrame0 ==
    [at |-> "start", queue |-> <<>>, n |-> 0, curr_depth |-> 0,
     result |-> <<>>, ret |-> NoRet, sys |-> <<>>, calls |-> <<>>]

PrintFrame0 ==
    [at |-> "start", queue |-> <<>>, n |-> 0, curr_depth |-> 0,
     out |-> <<>>, ret |-> NoRet, sys |-> <<>>, calls |-> <<>>]

\* An inner loop that runs until the queue is empty.
AdvanceUntilDrained(fr) ==
    IF fr.queue = <<>>
    THEN [fr EXCEPT !.n = 0, !.at = "while", !.curr_depth = @ + 1]
    ELSE [fr EXCEPT !.n = Len(fr.queue)]

\* The end of one pass of the inner loop; after the last one, curr_depth += 1.
Advance(fr) ==
    IF fr.n = 1
    THEN [fr EXCEPT !.n = 0, !.at = "while", !.curr_depth = @ + 1]
    ELSE [fr EXCEPT !.n = @ - 1]

Tag(path, m) == [i \in 1..Len(m.calls) |-> <<m.calls[i], path>>]

\* find: `!root.exists()`.
FindRootAssumed(F, root) == FALSE
FindRootNotDir(F, root) == ~IsDir(F, root)
FindRootMissing(F, root) == ~Exists(F, root)

\* find: `curr_depth <= depth`, the test that lets a directory be enumerated.
FindDescendsAlways(curr_depth, depth) == TRUE
FindDescendsOneMore(curr_depth, depth) == curr_depth <= depth + 1
FindDescendsOneLess(curr_depth, depth) == curr_depth < depth
FindDescends(curr_depth, depth) == curr_depth <= depth

\* queue.push_back(child) for each entry read: the children go behind what
\* is queued.
PushFront(queue, entries) == entries \o queue
PushBackTwice(queue, entries) == queue \o entries \o entries
PushBack(queue, entries) == queue \o entries

\* find: the `?` on a failed read_dir or entry returns the error.
FindReadFailedKeepsResult(fr) == [fr EXCEPT !.at = "ret", !.ret = OkFiles(fr.result)]
FindReadFailed(fr) == [fr EXCEPT !.at = "ret", !.ret = Err("Io")]

\* One step of Finder::find.
FindStep(F, fr, fd, depth) ==
    CASE fr.at = "start" ->
            IF FindRootMissing(F, fd.directory)
            THEN [fr EXCEPT !.at = "ret", !.ret = Err("NotFound"),
                            !.sys = Append(@, <<"exists", fd.directory>>)]
            ELSE [fr EXCEPT !.at = "while", !.queue = <<fd.directory>>,
                            !.sys = Append(@, <<"exists", fd.directory>>)]
      [] fr.at = "while" ->
            IF fr.queue = <<>>
            THEN [fr EXCEPT !.at = "ret", !.ret = OkFiles(fr.result)]
            ELSE [fr EXCEPT !.at = "for", !.n = Len(fr.queue)]
      [] fr.at = "for" ->
            LET path == Head(fr.queue)
                rest == Tail(fr.queue)
            IN  IF IsDir(F, path) /\ FindDescends(fr.curr_depth, depth)
                THEN LET rd == ReadDir(F, path)
                         fr2 == [fr EXCEPT !.queue = PushBack(rest, rd.entries),
                                    !.sys = @ \o << <<"is_dir", path>>,
                                                    <<"read_dir", path>> >>]
                     IN  IF rd.ok THEN Advance(fr2)
                         ELSE FindReadFailed(fr2)
                ELSE IF IsFile(F, path)
                THEN LET m == MeetsFilterCriteria(F, fd.filters, path)
                     IN  Advance([fr EXCEPT
                            !.queue = rest,
                            !.result = IF m.val THEN Append(@, path) ELSE @,
                            !.calls = @ \o Tag(path, m),
                            !.sys = @ \o << <<"is_dir", path>>,
                                            <<"is_file", path>> >> \o m.sys])
                ELSE Advance([fr EXCEPT
                            !.queue = rest,
                            !.sys = @ \o << <<"is_dir", path>>,
                                            <<"is_file", path>> >>])
      [] OTHER -> fr

\* println!("matching file: {}", path_string).
MatchingFile == <<"m", "a", "t", "c", "h", "i", "n", "g", " ",
                  "f", "i", "l", "e", ":", " ">>
LineBare(path_string) == path_string
Line(path_string) == MatchingFile \o path_string

\* print_find: `curr_depth <= depth`.
PrintFindDescendsOneLess(curr_depth, depth) == curr_depth < depth
PrintFindDescends(curr_depth, depth) == curr_depth <= depth

\* One step of Finder::print_find.
PrintFindStep(F, fr, fd, depth) ==
    CASE fr.at = "start" ->
            IF ~Exists(F, fd.directory)
            THEN [fr EXCEPT !.at = "ret", !.ret = Err("NotFound"),
                            !.sys = Append(@, <<"exists", fd.directory>>)]
            ELSE [fr EXCEPT !.at = "while", !.queue = <<fd.directory>>,
                            !.sys = Append(@, <<"exists", fd.directory>>)]
      [] fr.at = "while" ->
            IF fr.queue = <<>>
            THEN [fr EXCEPT !.at = "ret", !.ret = OkUnit]
            ELSE [fr EXCEPT !.at = "for", !.n = Len(fr.queue)]
      [] fr.at = "for" ->
            LET path == Head(fr.queue)
                rest == Tail(fr.queue)
            IN  IF IsDir(F, path) /\ PrintFindDescends(fr.curr_depth, depth)
                THEN LET rd == ReadDir(F, path)
                         fr2 == [fr EXCEPT !.queue = PushBack(rest, rd.entries),
                                    !.sys = @ \o << <<"is_dir", path>>,
                                                    <<"read_dir", path>> >>]
                     IN  IF rd.ok THEN Advance(fr2)
                         ELSE [fr2 EXCEPT !.at = "ret", !.ret = Err("Io")]
                ELSE IF IsFile(F, path)
                THEN LET m == MeetsFilterCriteria(F, fd.filters, path)
                     IN  Advance([fr EXCEPT
                            !.queue = rest,
                            !.out = IF m.val THEN Append(@, Line(path)) ELSE @,
                            !.calls = @ \o Tag(path, m),
                            !.sys = @ \o << <<"is_dir", path>>,
                                            <<"is_file", path>> >> \o m.sys])
                ELSE Advance([fr EXCEPT
                            !.queue = rest,
                            !.sys = @ \o << <<"is_dir", path>>,
                                            <<"is_file", path>> >>])
      [] OTHER -> fr

\* A whole call: the steps from `fr` until the operation returns.
RECURSIVE FindLoop(_, _, _, _)
FindLoop(F, fr, fd, depth) ==
    IF fr.at = "ret" THEN fr
    ELSE FindLoop(F, FindStep(F, fr, fd, depth), fd, depth)

Find(F, fd, depth) == FindLoop(F, FindFrame0, fd, depth)

RECURSIVE PrintFindLoop(_, _, _, _)
PrintFindLoop(F, fr, fd, depth) ==
    IF fr.at = "ret" THEN fr
    ELSE PrintFindLoop(F, PrintFindStep(F, fr, fd, depth), fd, depth)

PrintFind(F, fd, depth) == PrintFindLoop(F, PrintFrame0, fd, depth)

\* The same calls one at a time, for a filesystem that changes under the
\* traversal.  The path being processed stays at the head of the queue
\* until its pass of the inner loop ends.  Positions besides those of
\* FindStep: "dir", is_dir returned true and the depth allows, read_dir
\* comes next; "else", the first test failed, is_file comes next; "file",
\* is_file returned true, the chain of predicates comes next.

\* p is q or lies below q.
AtOrBelow(p, q) ==
    /\ Len(p) >= Len(q)
    /\ SubSeq(p, 1, Len(q)) = q
    /\ Len(p) = Len(q) \/ p[Len(q) + 1] = Sep

\* The filesystem once entry p, with all it holds, is removed.  (The trees
\* of RaceSpec hold no symbolic link.)
Removed(F, p) ==
    [F EXCEPT !.kind = [q \in DOMAIN F.kind |->
                            IF AtOrBelow(q, p) THEN "none" ELSE F.kind[q]]]

\* One filesystem call of Finder::find.
FindCall(F, fr, fd, depth) ==
    LET path == Head(fr.queue)
        rest == Tail(fr.queue)
    IN  CASE fr.at = "for" ->
                IF IsDir(F, path) /\ FindDescends(fr.curr_depth, depth)
                THEN [fr EXCEPT !.at = "dir",
                                !.sys = Append(@, <<"is_dir", path>>)]
                ELSE [fr EXCEPT !.at = "else",
                                !.sys = Append(@, <<"is_dir", path>>)]
          [] fr.at = "dir" ->
                LET rd == ReadDir(F, path)
                    fr2 == [fr EXCEPT !.at = "for",
                                      !.queue = PushBack(rest, rd.entries),
                                      !.sys = Append(@, <<"read_dir", path>>)]
                IN  IF rd.ok THEN Advance(fr2)
                    ELSE FindReadFailed(fr2)
          [] fr.at = "else" ->
                IF IsFile(F, path)
                THEN [fr EXCEPT !.at = "file",
                                !.sys = Append(@, <<"is_file", path>>)]
                ELSE Advance([fr EXCEPT !.at = "for", !.queue = rest,
                                !.sys = Append(@, <<"is_file", path>>)])
          [] fr.at = "file" ->
                LET m == MeetsFilterCriteria(F, fd.filters, path)
                IN  Advance([fr EXCEPT
                        !.at = "for", !.queue = rest,
                        !.result = IF m.val THEN Append(@, path) ELSE @,
                        !.calls = @ \o Tag(path, m),
                        !.sys = @ \o m.sys])
          [] OTHER -> FindStep(F, fr, fd, depth)

\* One filesystem call of Finder::print_find.
PrintFindCall(F, fr, fd, depth) ==
    LET path == Head(fr.queue)
        rest == Tail(fr.queue)
    IN  CASE fr.at = "for" ->
                IF IsDir(F, path) /\ PrintFindDescends(fr.curr_depth, depth)
                THEN [fr EXCEPT !.at = "dir",
                                !.sys = Append(@, <<"is_dir", path>>)]
                ELSE [fr EXCEPT !.at = "else",
                                !.sys = Append(@, <<"is_dir", path>>)]
          [] fr.at = "dir" ->
                LET rd == ReadDir(F, path)
                    fr2 == [fr EXCEPT !.at = "for",
                                      !.queue = PushBack(rest, rd.entries),
                                      !.sys = Append(@, <<"read_dir", path>>)]
                IN  IF rd.ok THEN Advance(fr2)
                    ELSE [fr2 EXCEPT !.at = "ret", !.ret = Err("Io")]
          [] fr.at = "else" ->
                IF IsFile(F, path)
                THEN [fr EXCEPT !.at = "file",
                                !.sys = Append(@, <<"is_file", path>>)]
                ELSE Advance([fr EXCEPT !.at = "for", !.queue = rest,
                                !.sys = Append(@, <<"is_file", path>>)])
          [] fr.at = "file" ->
                LET m == MeetsFilterCriteria(F, fd.filters, path)
                IN  Advance([fr EXCEPT
                        !.at = "for", !.queue = rest,
                        !.out = IF m.val THEN Append(@, Line(path)) ELSE @,
                        !.calls = @ \o Tag(path, m),
                        !.sys = @ \o m.sys])
          [] OTHER -> PrintFindStep(F, fr, fd, depth)

-----------------------------------------------------------------------------
(* The command line program.  An Option is a sequence of length 0 or 1.     *)

Some(x) == <<x>>
None == <<>>

\* The arguments the builder methods are called with.
SizeArgs == {1}
Exts == {<<".", "r">>}
ExtsCi == {<<".", "R">>}
Patterns == {<<"^", "f">>, <<"[">>}
Needles == {<<"d">>}

Present(opt) == IF opt = None THEN 0 ELSE 1

\* The command lines of the model: at most MaxFilters options given.
CliArgs ==
    {a \in [root : {Root},
            depth : 0..MaxDepth,
            file_extension : {None} \cup {Some(e) : e \in ExtsCi},
            pattern : {None} \cup {Some(q) : q \in Patterns},
            size_greater_than : {None} \cup {Some(b) : b \in SizeArgs},
            size_less_than : {None} \cup {Some(b) : b \in SizeArgs}] :
        Present(a.file_extension) + Present(a.pattern)
            + Present(a.size_greater_than) + Present(a.size_less_than)
                <= MaxFilters}

NoArgs ==
    [root |-> Root, depth |-> 0, file_extension |-> None, pattern |-> None,
     size_greater_than |-> None, size_less_than |-> None]

\* The Finder a builder call q returns, with the calls made so far.
After(r, q) == [tag |-> q.tag, fd |-> q.fd, ev |-> r.ev \o q.ev]

\* main, from Finder::new to the last builder call: one
\* `if let Some(x) = option { finder = finder.method(x) }` for each option.
MainBuildFinder(a) ==
    LET r0 == FinderNew(a.root)
        r1 == IF a.size_less_than = None THEN r0
              ELSE After(r0, SizeLessThanOrEq(r0.fd, a.size_less_than[1]))
        r2 == IF a.size_greater_than = None THEN r1
              ELSE After(r1, SizeGreaterThanOrEq(r1.fd, a.size_greater_than[1]))
        r3 == IF a.file_extension = None THEN r2
              ELSE After(r2, HasExtensionCaseInsensitive(r2.fd, a.file_extension[1]))
    IN  IF a.pattern = None THEN r3
        ELSE After(r3, MatchesRegex(r3.fd, a.pattern[1]))

\* What main does with the Result of print_find: `let _ =` drops it, and
\* main returns, so the process exits with status 0 and writes nothing.
MainFinish(ret) == [code |-> 0, err |-> <<>>]

-----------------------------------------------------------------------------
(* The state machine.  A library caller builds a Finder with any chain of   *)
(* at most MaxFilters predicates and calls find, then print_find on a       *)
(* Finder built the same way (a terminal operation consumes its Finder).    *)
(* The command line program runs main.  The filesystem does not change,    *)
(* except under RaceSpec below.                                             *)

VARIABLES
    caller,     \* "lib": a program using the crate; "cli": the binary;
                \* "test": one predicate tried on one path string
    fs,         \* the filesystem
    depth,      \* the depth argument of the terminal operations
    args,       \* the parsed command line ("cli")
    finder,     \* the Finder being built
    pc,         \* "init", "config", "find", "print_find", "built",
                \* "panicked", "exited", "probed"
    f,          \* the frame of find
    pf,         \* the frame of print_find
    effects,    \* filesystem calls and predicate invocations made by the
                \* builder methods
    stderr,     \* the lines written to standard error
    exitCode,   \* the exit status of the process, -1 while it runs
    probe,      \* one predicate invoked on one path string, with its verdict
    removed     \* the entries another process has removed, in order

vars == <<caller, fs, depth, args, finder, pc, f, pf, effects, stderr, exitCode,
          probe, removed>>

NoFinder == [directory |-> <<>>, filters |-> <<>>]

\* No predicate invoked on path string s yet.
NoProbe(s) == [s |-> s, pred |-> "none", arg |-> <<>>, val |-> FALSE]

Init ==
    /\ caller \in {"lib", "cli"}
    /\ probe = NoProbe(<<>>)
    /\ removed = <<>>
    /\ fs \in FileSystems
    /\ args \in (IF caller = "cli" THEN CliArgs ELSE {NoArgs})
    /\ depth \in (IF caller = "cli" THEN {args.depth} ELSE 0..MaxDepth)
    /\ finder = NoFinder
    /\ pc = "init"
    /\ f = FindFrame0
    /\ pf = PrintFrame0
    /\ effects = <<>>
    /\ stderr = <<>>
    /\ exitCode = -1

\* The outcome r of a builder method called by the library's user.
Built(r) ==
    /\ effects' = effects \o r.ev
    /\ IF r.tag = "panic"
       THEN /\ pc' = "panicked"
            /\ finder' = NoFinder
       ELSE /\ pc' = "config"
            /\ finder' = r.fd
    /\ UNCHANGED <<removed, probe, caller, fs, depth, args, f, pf, stderr, exitCode>>

CanAdd == caller = "lib" /\ pc = "config" /\ Len(finder.filters) < MaxFilters

New ==
    /\ caller = "lib" /\ pc = "init"
    /\ Built(FinderNew(Root))

FilterCall ==
    /\ CanAdd
    /\ \E needle \in Needles :
        Built(Filter(finder, [kind |-> "contains", arg |-> needle]))

SizeLessThanOrEqCall ==
    /\ CanAdd
    /\ \E bytes \in SizeArgs : Built(SizeLessThanOrEq(finder, bytes))

SizeGreaterThanOrEqCall ==
    /\ CanAdd
    /\ \E bytes \in SizeArgs : Built(SizeGreaterThanOrEq(finder, bytes))

HasExtensionCall ==
    /\ CanAdd
    /\ \E ext \in Exts : Built(HasExtension(finder, ext))

HasExtensionCaseInsensitiveCall ==
    /\ CanAdd
    /\ \E ext \in ExtsCi : Built(HasExtensionCaseInsensitive(finder, ext))

MatchesRegexCall ==
    /\ CanAdd
    /\ \E pattern \in Patterns : Built(MatchesRegex(finder, pattern))

\* find is called: the existence check of the root.
FindBegin ==
    /\ caller = "lib" /\ pc = "config"
    /\ pc' = "find"
    /\ f' = FindStep(fs, FindFrame0, finder, depth)
    /\ UNCHANGED <<removed, probe, caller, fs, depth, args, finder, pf, effects, stderr, exitCode>>

FindNext ==
    /\ pc = "find" /\ f.at # "ret"
    /\ f' = FindStep(fs, f, finder, depth)
    /\ UNCHANGED <<removed, probe, caller, fs, depth, args, finder, pc, pf, effects, stderr, exitCode>>

\* print_find is called: by the library's user once find has returned, by
\* main once the Finder is built.
PrintFindBegin ==
    /\ \/ caller = "lib" /\ pc = "find" /\ f.at = "ret"
       \/ caller = "cli" /\ pc = "built"
    /\ pc' = "print_find"
    /\ pf' = PrintFindStep(fs, PrintFrame0, finder, depth)
    /\ UNCHANGED <<removed, probe, caller, fs, depth, args, finder, f, effects, stderr, exitCode>>

PrintFindNext ==
    /\ pc = "print_find" /\ pf.at # "ret"
    /\ pf' = PrintFindStep(fs, pf, finder, depth)
    /\ UNCHANGED <<removed, probe, caller, fs, depth, args, finder, pc, f, effects, stderr, exitCode>>

\* Config::new: the search root must exist, or the process exits with 1.
ConfigNew ==
    /\ caller = "cli" /\ pc = "init"
    /\ IF Exists(fs, args.root)
       THEN /\ pc' = "main"
            /\ UNCHANGED <<stderr, exitCode>>
       ELSE /\ pc' = "exited"
            /\ stderr' = Append(stderr, "ERROR: Invalid argument for PATH")
            /\ exitCode' = 1
    /\ UNCHANGED <<removed, probe, caller, fs, depth, args, finder, f, pf, effects>>

\* main builds the Finder; a panic ends the process with status 101.
MainBuild ==
    /\ caller = "cli" /\ pc = "main"
    /\ LET r == MainBuildFinder(args)
       IN  /\ effects' = effects \o r.ev
           /\ IF r.tag = "panic"
              THEN /\ pc' = "exited"
                   /\ finder' = NoFinder
                   /\ stderr' = Append(stderr, "thread 'main' panicked")
                   /\ exitCode' = 101
              ELSE /\ pc' = "built"
                   /\ finder' = r.fd
                   /\ UNCHANGED <<stderr, exitCode>>
    /\ UNCHANGED <<removed, probe, caller, fs, depth, args, f, pf>>

\* print_find has returned to main.
MainReturn ==
    /\ caller = "cli" /\ pc = "print_find" /\ pf.at = "ret"
    /\ LET r == MainFinish(pf.ret)
       IN  /\ stderr' = stderr \o r.err
           /\ exitCode' = r.code
    /\ pc' = "exited"
    /\ UNCHANGED <<removed, probe, caller, fs, depth, args, finder, f, pf, effects>>

Next ==
    \/ New
    \/ FilterCall
    \/ SizeLessThanOrEqCall
    \/ SizeGreaterThanOrEqCall
    \/ HasExtensionCall
    \/ HasExtensionCaseInsensitiveCall
    \/ MatchesRegexCall
    \/ FindBegin
    \/ FindNext
    \/ PrintFindBegin
    \/ PrintFindNext
    \/ ConfigNew
    \/ MainBuild
    \/ MainReturn

Spec == Init /\ [][Next]_vars

\* The library caller that registers predicates with filter alone.  A
\* terminal operation runs in the thread that called it: while it has not
\* returned, its next step is taken.
LibInit == Init /\ caller = "lib"

LibNext ==
    \/ New
    \/ FilterCall
    \/ FindBegin
    \/ FindNext
    \/ PrintFindBegin
    \/ PrintFindNext

FairSpec == LibInit /\ [][LibNext]_vars /\ WF_vars(FindNext \/ PrintFindNext)

-----------------------------------------------------------------------------
(* The built-in predicates on their own: a Finder is built with one         *)
(* predicate, and its chain is invoked on one path string, as find does for *)
(* a file it dequeues.                                                      *)

\* The path strings a predicate is tried on: the files of the tree, and
\* r/F.R and r/d/f.R, which no directory of the tree holds.
ProbePaths ==
    {p \in Universe : FileName(p) \in FileNames}
        \cup {Join(Root, <<"F", ".", "R">>), Join(Spine(1), <<"f", ".", "R">>)}

ProbeExts == {<<".", "r">>, <<".", "R">>, <<"r">>, <<"f", ".", "r">>, <<"F", ".", "r">>}
ProbePatterns == {<<"d">>, <<"^", "r">>, <<"/">>, <<"f">>, <<"^", "f">>, <<".", "r">>,
                  <<".", "R", "$">>, <<"^", "G", ".", "R", "$">>}
ProbeSizes == 0..(TreeHeight + 1)

\* The tree whose spine is all directories, each holding f.r and G.R.
ProbeFileSystems ==
    {Tree(TreeHeight, "none", <<DirName, NameF, NameG>>, flaky) :
        flaky \in {{}, {Join(Root, NameG)}}}

\* A caller that holds Finder::new(root) and a path string to try.
PredInit ==
    /\ caller = "test"
    /\ fs \in ProbeFileSystems
    /\ args = NoArgs
    /\ depth = 0
    /\ finder = FinderNew(Root).fd
    /\ pc = "config"
    /\ f = FindFrame0
    /\ pf = PrintFrame0
    /\ effects = <<>>
    /\ stderr = <<>>
    /\ exitCode = -1
    /\ probe \in {NoProbe(s) : s \in ProbePaths}
    /\ removed = <<>>

\* The Finder r.fd is handed path string probe.s: meets_filter_criteria.
Probed(pred, arg, r) ==
    /\ caller = "test" /\ pc = "config" /\ r.tag = "ok"
    /\ finder' = r.fd
    /\ pc' = "probed"
    /\ probe' = [s |-> probe.s, pred |-> pred, arg |-> arg,
                 val |-> MeetsFilterCriteria(fs, r.fd.filters, probe.s).val]
    /\ UNCHANGED <<removed, caller, fs, depth, args, f, pf, effects, stderr, exitCode>>

ProbeHasExtension ==
    \E ext \in ProbeExts :
        Probed("has_extension", ext, HasExtension(finder, ext))

ProbeHasExtensionCaseInsensitive ==
    \E ext \in ProbeExts :
        Probed("has_extension_case_insensitive", ext,
               HasExtensionCaseInsensitive(finder, ext))

ProbeSizeLessThanOrEq ==
    \E bytes \in ProbeSizes :
        Probed("size_less_than_or_eq", bytes,
               SizeLessThanOrEq(finder, bytes))

ProbeSizeGreaterThanOrEq ==
    \E bytes \in ProbeSizes :
        Probed("size_greater_than_or_eq", bytes,
               SizeGreaterThanOrEq(finder, bytes))

ProbeMatchesRegex ==
    \E pattern \in ProbePatterns :
        Probed("matches_regex", pattern, MatchesRegex(finder, pattern))

PredNext ==
    \/ ProbeHasExtension
    \/ ProbeHasExtensionCaseInsensitive
    \/ ProbeSizeLessThanOrEq
    \/ ProbeSizeGreaterThanOrEq
    \/ ProbeMatchesRegex

PredSpec == PredInit /\ [][PredNext]_vars

-----------------------------------------------------------------------------
(* A terminal operation while another process removes entries.  Each step   *)
(* of the call makes at most one filesystem call (the chain of predicates   *)
(* runs as one step), and a removal may fall between any two steps.         *)

\* Trees of readable directories, and a root that is a regular file.
RaceFileSystems ==
    {Tree(h, "none", listing, {}) : h \in 1..TreeHeight, listing \in Listings}
        \cup {Tree(0, "file", <<DirName>>, {})}

RaceInit == LibInit /\ fs \in RaceFileSystems

FindCallNext ==
    /\ pc = "find" /\ f.at # "ret"
    /\ f' = FindCall(fs, f, finder, depth)
    /\ UNCHANGED <<removed, probe, caller, fs, depth, args, finder, pc, pf, effects, stderr, exitCode>>

\* print_find is called on the Finder built, in place of find.
PrintFindCallBegin ==
    /\ caller = "lib" /\ pc = "config"
    /\ pc' = "print_find"
    /\ pf' = PrintFindStep(fs, PrintFrame0, finder, depth)
    /\ UNCHANGED <<removed, probe, caller, fs, depth, args, finder, f, effects, stderr, exitCode>>

PrintFindCallNext ==
    /\ pc = "print_find" /\ pf.at # "ret"
    /\ pf' = PrintFindCall(fs, pf, finder, depth)
    /\ UNCHANGED <<removed, probe, caller, fs, depth, args, finder, pc, f, effects, stderr, exitCode>>

\* The other process removes an entry while a terminal operation runs.
Remove ==
    /\ \/ pc = "find" /\ f.at # "ret"
       \/ pc = "print_find" /\ pf.at # "ret"
    /\ Len(removed) < MaxRemovals
    /\ \E p \in Universe :
        /\ Kind(fs, p) # "none"
        /\ fs' = Removed(fs, p)
        /\ removed' = Append(removed, p)
    /\ UNCHANGED <<probe, caller, depth, args, finder, pc, f, pf, effects, stderr, exitCode>>

RaceNext ==
    \/ New
    \/ FilterCall
    \/ FindBegin
    \/ FindCallNext
    \/ PrintFindCallBegin
    \/ PrintFindCallNext
    \/ Remove

RaceSpec == RaceInit /\ [][RaceNext]_vars

-----------------------------------------------------------------------------
(* Properties *)

\* The number of nested subdirectories of the root that path p lies under.
Nesting(p) == SepCount(p) - SepCount(Root) - 1

\* The directories a frame has handed to read_dir.
ReadDirs(fr) ==
    {fr.sys[i][2] : i \in {j \in 1..Len(fr.sys) : fr.sys[j][1] = "read_dir"}}

\* The path of a line print_find wrote.
Printed(line) == SubSeq(line, Len(MatchingFile) + 1, Len(line))

Returned(fr) == fr.at = "ret"

\* find has just returned to the library's user.
FindReturned == pc = "find" /\ Returned(f)

\* The regular files of F within `d` nested subdirectories of `root`, each
\* reached through directories only.
RECURSIVE Under(_, _, _)
Under(F, root, p) ==
    LET seps == {i \in 1..Len(p) : p[i] = Sep}
        last == CHOOSE i \in seps : \A j \in seps : j <= i
        parent == SubSeq(p, 1, last - 1)
    IN  /\ seps # {}
        /\ Len(p) > Len(root)
        /\ IsDir(F, parent)
        /\ parent = root \/ Under(F, root, parent)

FilesWithin(F, root, d) ==
    {p \in DOMAIN F.kind : IsFile(F, p) /\ Under(F, root, p) /\ Nesting(p) <= d}

\* A pass of the inner loop made while curr_depth > depth enumerates nothing
\* and enqueues nothing.
DroppedBeyondDepth(fr, fr2) ==
    (fr.at = "for" /\ fr.curr_depth > depth /\ fr2 # fr) =>
        /\ fr2.queue = Tail(fr.queue)
        /\ ReadDirs(fr2) = ReadDirs(fr)

\* C1: find and print_find never enumerate a directory dequeued while
\* curr_depth > depth, and no file they collect, return or print lies under
\* more than `depth` nested subdirectories of the root.
C1_DepthBound ==
    /\ [](/\ \A i \in 1..Len(f.result) : Nesting(f.result[i]) <= depth
          /\ \A i \in 1..Len(f.ret.files) : Nesting(f.ret.files[i]) <= depth
          /\ \A i \in 1..Len(pf.out) : Nesting(Printed(pf.out[i])) <= depth
          /\ \A p \in ReadDirs(f) \cup ReadDirs(pf) : Nesting(p) < depth)
    /\ [][DroppedBeyondDepth(f, f') /\ DroppedBeyondDepth(pf, pf')]_vars

\* find(0) has returned on a tree that holds r/d/d/f.r: the directory r/d
\* was dequeued and dropped, and the file r/f.r was returned.
C1_Witness ==
    /\ Returned(f) /\ f.ret.tag = "Ok" /\ depth = 0
    /\ IsFile(fs, Join(Spine(2), NameF))
    /\ \E i \in 1..Len(f.sys) : f.sys[i] = <<"is_dir", Spine(1)>>
    /\ Spine(1) \notin ReadDirs(f)
    /\ Join(Root, NameF) \in Range(f.ret.files)

\* C2: with no predicate registered, find(d) on a root directory, when no
\* enumeration fails, returns exactly the regular files within d nested
\* subdirectories of the root.
C2_Completeness ==
    (/\ FindReturned /\ finder.filters = <<>>
     /\ IsDir(fs, finder.directory) /\ f.ret.kind # "Io") =>
        /\ f.ret.tag = "Ok"
        /\ Range(f.ret.files) = FilesWithin(fs, finder.directory, depth)

\* find(1) with no predicate returned files of the root and of r/d, and the
\* tree holds a file one level deeper that it did not return.
C2_Witness ==
    /\ FindReturned /\ finder.filters = <<>> /\ depth = 1
    /\ f.ret.tag = "Ok"
    /\ Join(Root, NameF) \in Range(f.ret.files)
    /\ Join(Spine(1), NameG) \in Range(f.ret.files)
    /\ IsFile(fs, Join(Spine(2), NameF))

\* What a frame did before it returned: nothing but the existence check.
DidNothing(fr) ==
    /\ ReadDirs(fr) = {}
    /\ fr.calls = <<>>
    /\ fr.sys = << <<"exists", finder.directory>> >>

\* C3: when the root does not exist, find and print_find return an error of
\* kind NotFound, having enumerated no directory, invoked no predicate and
\* emitted no match.
C3_RootNotFound ==
    /\ (Returned(f) /\ ~Exists(fs, finder.directory)) =>
            /\ f.ret = Err("NotFound")
            /\ DidNothing(f) /\ f.result = <<>>
    /\ (Returned(pf) /\ ~Exists(fs, finder.directory)) =>
            /\ pf.ret = Err("NotFound")
            /\ DidNothing(pf) /\ pf.out = <<>>

\* Both operations have returned on a root that is a dangling link, with a
\* predicate registered.
C3_Witness ==
    /\ Returned(f) /\ Returned(pf)
    /\ Kind(fs, finder.directory) = "broken"
    /\ finder.filters # <<>>
    /\ f.ret.kind = "NotFound" /\ pf.ret.kind = "NotFound"

\* What find returns for the chain `filters` on the session's root,
\* filesystem and depth.
RetOf(filters) == Find(fs, [finder EXCEPT !.filters = filters], depth).ret

\* The chain with its first two predicates swapped, and the chain rotated
\* by one place: between them they reach every order of registration.
Swapped(chain) ==
    IF Len(chain) < 2 THEN chain
    ELSE <<chain[2], chain[1]>> \o SubSeq(chain, 3, Len(chain))
Rotated(chain) == Tail(chain) \o <<Head(chain)>>

\* C4: the files find returns for a chain of predicates are exactly the
\* files it returns for every predicate of the chain registered alone, and
\* the same files when the predicates are registered in another order (with
\* the same Ok or Err throughout).
C4_Conjunction ==
    [](
        (FindReturned /\ finder.filters # <<>>) =>
            LET chain == finder.filters
                n == Len(chain)
                alone == [i \in 1..n |-> RetOf(<<chain[i]>>)]
                swapped == RetOf(Swapped(chain))
                rotated == RetOf(Rotated(chain))
            IN  /\ \A i \in 1..n : alone[i].tag = f.ret.tag
                /\ Range(f.ret.files) =
                        {p \in Range(alone[1].files) :
                            \A i \in 1..n : p \in Range(alone[i].files)}
                /\ Range(swapped.files) = Range(f.ret.files)
                /\ Range(rotated.files) = Range(f.ret.files)
                /\ swapped.tag = f.ret.tag /\ rotated.tag = f.ret.tag
    )

\* find returned for a chain of two predicates, each of which alone keeps a
\* file the other rejects, and the chain kept some file.
C4_Witness ==
    /\ FindReturned /\ Len(finder.filters) = 2 /\ f.ret.tag = "Ok"
    /\ f.ret.files # <<>>
    /\ Range(RetOf(<<finder.filters[1]>>).files)
            \ Range(RetOf(<<finder.filters[2]>>).files) # {}
    /\ Range(RetOf(<<finder.filters[2]>>).files)
            \ Range(RetOf(<<finder.filters[1]>>).files) # {}

\* The positions of the log at which a read_dir failed.
FailedReads(fr) ==
    {i \in 1..Len(fr.sys) :
        fr.sys[i][1] = "read_dir" /\ ~ReadDir(fs, fr.sys[i][2]).ok}

\* C5: when the enumeration of a directory fails, find makes no further
\* filesystem call, returns Err, and returns none of the matches it had
\* collected.
C5_FatalTraversalError ==
    pc = "find" =>
        \A i \in FailedReads(f) :
            /\ i = Len(f.sys)
            /\ Returned(f)
            /\ f.ret.tag = "Err" /\ f.ret.kind = "Io"
            /\ f.ret.files = <<>>

\* find returned Err after it had collected a match and with entries still
\* queued.
C5_Witness ==
    /\ Returned(f) /\ FailedReads(f) # {}
    /\ f.result # <<>>
    /\ f.queue # <<>>

IsSize(p) == p.kind \in {"size_le", "size_ge"}

\* The filesystem with no failing metadata lookup.
Sound(F) == [F EXCEPT !.flaky = {}]

NotFlaky(call) == call[2] \notin fs.flaky

\* C6: a size predicate whose metadata lookup fails returns false; the file
\* is excluded; find returns what it would return without the failure (Ok
\* or Err), and the other files are tested and matched as without it.
C6_PredicateFailure ==
    (FindReturned /\ fs.flaky # {}) =>
        LET g == Find(Sound(fs), finder, depth)
        IN  /\ \A i \in 1..Len(f.calls) :
                    (IsSize(finder.filters[f.calls[i][1]])
                        /\ f.calls[i][2] \in fs.flaky)
                    => /\ ~Apply(fs, finder.filters[f.calls[i][1]], f.calls[i][2]).val
                       /\ f.calls[i][2] \notin Range(f.result)
            /\ f.ret.tag = g.ret.tag /\ f.ret.kind = g.ret.kind
            /\ SelectSeq(f.result, LAMBDA p : p \notin fs.flaky)
                    = SelectSeq(g.result, LAMBDA p : p \notin fs.flaky)
            /\ SelectSeq(f.calls, NotFlaky) = SelectSeq(g.calls, NotFlaky)

\* find returned Ok: the lookup of a size predicate failed on a file that
\* would have matched, and another file matched.
C6_Witness ==
    /\ FindReturned /\ f.ret.tag = "Ok"
    /\ \E i \in 1..Len(f.calls) :
            /\ IsSize(finder.filters[f.calls[i][1]])
            /\ f.calls[i][2] \in fs.flaky
            /\ f.calls[i][2] \in Range(Find(Sound(fs), finder, depth).result)
    /\ f.ret.files # <<>>

\* C7: a pattern that does not compile is reported by matches_regex to its
\* caller as an error value: no builder call panics, and the process is not
\* ended by a panic.
C7_InvalidPatternReturned ==
    /\ pc # "panicked"
    /\ exitCode # 101

\* C8: print_find makes the traversal find makes (the same filesystem calls
\* and predicate invocations in the same order), returns Ok exactly when
\* find does, and then has printed one line "matching file: <path>" for each
\* path find returns, in the same order.
C8_PrintFindEquivalence ==
    (Returned(f) /\ Returned(pf)) =>
        /\ pf.ret.tag = f.ret.tag /\ pf.ret.kind = f.ret.kind
        /\ pf.sys = f.sys
        /\ pf.calls = f.calls
        /\ f.ret.tag = "Ok" =>
                pf.out = [i \in 1..Len(f.ret.files) |-> MatchingFile \o f.ret.files[i]]

\* Both have returned Ok, with predicates registered, matches at two levels
\* and a file that did not match.
C8_Witness ==
    /\ Returned(f) /\ Returned(pf) /\ pf.ret.tag = "Ok"
    /\ finder.filters # <<>>
    /\ \E i, j \in 1..Len(pf.out) :
            Nesting(Printed(pf.out[i])) < Nesting(Printed(pf.out[j]))
    /\ FilesWithin(fs, finder.directory, depth) \ Range(f.ret.files) # {}

\* C9: when print_find returns an error to main, the program has written to
\* standard error and exits with a status other than 0.
C9_CliSurfacesError ==
    (caller = "cli" /\ pc = "exited" /\ Returned(pf) /\ pf.ret.tag = "Err") =>
        /\ exitCode # 0
        /\ stderr # <<>>

\* What a builder call that returns leaves behind: the root unchanged, and
\* the chain longer by `added` predicates after the ones it held.
Appends(added) ==
    /\ finder'.directory = finder.directory
    /\ Len(finder'.filters) = Len(finder.filters) + added
    /\ SubSeq(finder'.filters, 1, Len(finder.filters)) = finder.filters

\* C10: no builder method makes a filesystem call or invokes a predicate;
\* new returns a Finder with the given root and an empty chain; every other
\* builder method that returns has appended exactly one predicate and left
\* the root and the predicates before it as they were (main: one predicate
\* for each option given); predicates are invoked in terminal operations only.
C10_LazyConfiguration ==
    /\ [](effects = <<>>)
    /\ [][/\ (pc = "init" /\ pc' = "config") =>
                /\ finder' = [directory |-> Root, filters |-> <<>>]
                /\ UNCHANGED <<fs, f, pf>>
          /\ (pc = "config" /\ pc' = "config") =>
                /\ Appends(1)
                /\ UNCHANGED <<fs, f, pf>>
          /\ (pc = "main" /\ pc' = "built") =>
                /\ finder'.directory = args.root
                /\ Len(finder'.filters) =
                        Present(args.file_extension) + Present(args.pattern)
                        + Present(args.size_greater_than)
                        + Present(args.size_less_than)
                /\ UNCHANGED <<fs, f, pf>>
          /\ (f'.calls # f.calls \/ pf'.calls # pf.calls) =>
                pc' \in {"find", "print_find"}]_vars

\* A Finder holding a regex predicate after a size predicate, before any
\* terminal operation.
C10_Witness ==
    /\ pc = "config" /\ Len(finder.filters) = 2
    /\ finder.filters[1].kind = "size_ge"
    /\ finder.filters[2].kind = "regex"
    /\ f = FindFrame0 /\ pf = PrintFrame0

-----------------------------------------------------------------------------
(* Properties of the built-in predicates *)

\* Two characters that are equal up to case.
SameLetter(a, b) == LowerChar(a) = LowerChar(b)

\* C11: has_extension(ext) keeps a path string exactly when its last
\* characters are those of ext, each compared exactly (so ".r" rejects F.R
\* and ".R" rejects f.r); has_extension_case_insensitive(ext) keeps it
\* exactly when they are those of ext up to the case of each letter (so F.R
\* is kept for ".r" and for ".R"), and gives the same verdict for any ext
\* that differs from it in case only.
C11_ExtensionCase ==
    LET s == probe.s
        ext == probe.arg
        fits == Len(ext) <= Len(s)
        off == Len(s) - Len(ext)
    IN  /\ probe.pred = "has_extension" =>
                /\ probe.val <=> (fits /\ \A i \in 1..Len(ext) : s[off + i] = ext[i])
                /\ (FileName(s) = <<"F", ".", "R">> /\ ext = <<".", "r">>) => ~probe.val
                /\ (FileName(s) = <<"f", ".", "r">> /\ ext = <<".", "R">>) => ~probe.val
        /\ probe.pred = "has_extension_case_insensitive" =>
                /\ probe.val <=>
                        (fits /\ \A i \in 1..Len(ext) : SameLetter(s[off + i], ext[i]))
                /\ (FileName(s) = <<"F", ".", "R">>
                        /\ ext \in {<<".", "r">>, <<".", "R">>}) => probe.val
                /\ \A other \in ProbeExts :
                        (/\ Len(other) = Len(ext)
                         /\ \A i \in 1..Len(ext) : SameLetter(other[i], ext[i]))
                        => probe.val = MeetsFilterCriteria(fs,
                                HasExtensionCaseInsensitive(FinderNew(Root).fd, other)
                                    .fd.filters, s).val

\* has_extension(".r") was invoked on r/F.R and rejected it.
C11_Witness ==
    /\ probe.pred = "has_extension" /\ probe.arg = <<".", "r">>
    /\ probe.s = Join(Root, <<"F", ".", "R">>)
    /\ ~probe.val

\* Path string s names a regular file whose metadata can be read.
Sized(s) == IsFile(fs, s) /\ s \notin fs.flaky

\* C12: a file of exactly N bytes is kept by size_less_than_or_eq(N) and by
\* size_greater_than_or_eq(N); a file of N + 1 bytes is rejected by
\* size_less_than_or_eq(N) and a file of N - 1 bytes by
\* size_greater_than_or_eq(N); in all, the first keeps the files of at most
\* N bytes and the second the files of at least N bytes.
C12_SizeInclusive ==
    LET N == probe.arg
        size == FileLen(probe.s)
    IN  /\ (probe.pred = "size_less_than_or_eq" /\ Sized(probe.s)) =>
                /\ size = N => probe.val
                /\ size = N + 1 => ~probe.val
                /\ probe.val <=> size <= N
        /\ (probe.pred = "size_greater_than_or_eq" /\ Sized(probe.s)) =>
                /\ size = N => probe.val
                /\ size = N - 1 => ~probe.val
                /\ probe.val <=> size >= N

\* size_greater_than_or_eq(2) was invoked on a file of exactly 2 bytes and
\* kept it.
C12_Witness ==
    /\ probe.pred = "size_greater_than_or_eq" /\ probe.arg = 2
    /\ Sized(probe.s) /\ FileLen(probe.s) = 2
    /\ probe.val

\* The characters of s after position i, where i is 0 or the place of a
\* separator followed by none: the base name; and the characters before it.
LastSep(s) ==
    CHOOSE i \in 0..Len(s) :
        /\ i = 0 \/ s[i] = Sep
        /\ \A j \in (i + 1)..Len(s) : s[j] # Sep
BaseName(s) == SubSeq(s, LastSep(s) + 1, Len(s))
DirPart(s) == SubSeq(s, 1, LastSep(s))

\* A pattern without ^, $ or . : it matches a text exactly when the text
\* contains it.
Literal(pattern) == \A i \in 1..Len(pattern) : pattern[i] \notin {"^", "$", "."}

\* A pattern without ^ or $ : whether it matches within a text does not
\* depend on what surrounds the text.
Unanchored(pattern) == \A i \in 1..Len(pattern) : pattern[i] \notin {"^", "$"}

\* The verdict of a Finder built with matches_regex(pattern) on path string s.
RegexVerdict(pattern, s) ==
    MeetsFilterCriteria(fs, MatchesRegex(FinderNew(Root).fd, pattern).fd.filters, s).val

\* C13: the verdict of matches_regex(pattern) on a path string is that of a
\* search of the pattern in its base name: path strings with the same base
\* name get the same verdict whatever their directories, a pattern found in
\* the directory part alone keeps no file, and a pattern found in a proper
\* part of the base name keeps the file (for a pattern with ^ or $, found
\* in the base name as the search of the whole base name finds it).
C13_RegexScope ==
    probe.pred = "matches_regex" =>
        LET pattern == probe.arg
            name == BaseName(probe.s)
        IN  /\ \A other \in ProbePaths :
                    BaseName(other) = name => RegexVerdict(pattern, other) = probe.val
            /\ probe.val <=> IsMatch(Compile(pattern), name)
            /\ Literal(pattern) => (probe.val <=> Contains(name, pattern))
            /\ (IsMatch(Compile(pattern), DirPart(probe.s))
                    /\ ~IsMatch(Compile(pattern), name)) => ~probe.val
            /\ (\E i, j \in 1..Len(name) :
                    /\ Unanchored(pattern)
                    /\ j - i + 1 < Len(name)
                    /\ IsMatch(Compile(pattern), SubSeq(name, i, j))) => probe.val

\* matches_regex("d") rejected r/d/f.r, whose directory part holds a d,
\* and matches_regex("f") keeps it, f being a proper part of its base name.
C13_Witness ==
    /\ probe.pred = "matches_regex" /\ probe.s = Join(Spine(1), NameF)
    /\ probe.arg = <<"d">> /\ ~probe.val
    /\ RegexVerdict(<<"f">>, probe.s)

-----------------------------------------------------------------------------
(* Properties of the traversal *)

\* The paths a frame has dequeued, and those it has tested with is_file.
Dequeued(fr) ==
    {fr.sys[i][2] : i \in {j \in 1..Len(fr.sys) : fr.sys[j][1] = "is_dir"}}
Classified(fr) ==
    {fr.sys[i][2] : i \in {j \in 1..Len(fr.sys) : fr.sys[j][1] = "is_file"}}

\* The paths a frame has passed to a predicate.
Tested(fr) == {fr.calls[i][2] : i \in 1..Len(fr.calls)}

\* The paths a frame has emitted: collected or returned by find, printed by
\* print_find.
Emitted ==
    [find |-> Range(f.result) \cup Range(f.ret.files),
     print_find |-> {Printed(pf.out[i]) : i \in 1..Len(pf.out)}]

\* Every emitted or tested path is a regular file that was dequeued and
\* classified by is_file; no other dequeued entry is emitted or tested.
OnlyFiles(fr, emitted) ==
    LET dequeued == Dequeued(fr)
        classified == Classified(fr)
        candidates == emitted \cup Tested(fr)
    IN  /\ \A p \in candidates :
                Kind(fs, p) = "file" /\ p \in dequeued /\ p \in classified
        /\ \A p \in dequeued : Kind(fs, p) # "file" => p \notin candidates

\* The last filesystem call of the frame is a failed enumeration.
EndedByFailedRead(fr) ==
    /\ fr.sys # <<>>
    /\ fr.sys[Len(fr.sys)][1] = "read_dir"
    /\ ~ReadDir(fs, fr.sys[Len(fr.sys)][2]).ok

\* C14 as stated: only regular files are emitted or passed to a predicate,
\* and once the root exists no dequeued directory or other entry makes the
\* operation return an error.
C14_NoEntryEverFails ==
    /\ OnlyFiles(f, Emitted.find) /\ OnlyFiles(pf, Emitted.print_find)
    /\ \A fr \in {f, pf} :
            (Returned(fr) /\ Exists(fs, finder.directory)) => fr.ret.tag = "Ok"

\* C14: every path find collects or returns and print_find prints, and
\* every path passed to a predicate, is a regular file that was dequeued
\* and classified by is_file; a dequeued directory or other entry is never
\* emitted nor passed to a predicate; and the operation returns an error
\* only for a root that does not exist or right after an enumeration that
\* failed: a directory dropped beyond the depth bound, a directory whose
\* enumeration succeeds, and an entry that is neither never cause one.
C14_OnlyFiles ==
    [](
        /\ OnlyFiles(f, Emitted.find) /\ OnlyFiles(pf, Emitted.print_find)
        /\ \A fr \in {f, pf} :
                (Returned(fr) /\ fr.ret.tag = "Err") =>
                    \/ fr.ret.kind = "NotFound" /\ ~Exists(fs, finder.directory)
                    \/ fr.ret.kind = "Io" /\ EndedByFailedRead(fr)
    )

\* find returned Ok and a file, with a predicate registered, having
\* dequeued a directory and an entry that is neither directory nor file.
C14_Witness ==
    /\ FindReturned /\ f.ret.tag = "Ok" /\ f.ret.files # <<>>
    /\ finder.filters # <<>>
    /\ \E p \in Dequeued(f) : Kind(fs, p) \in {"special", "broken"}
    /\ \E p \in Dequeued(f) : Kind(fs, p) = "dir"

\* The number of enumeration steps from the root to path p.
Level(p) == SepCount(p) - SepCount(Root)

\* The frame of the terminal operation that is running, if one is.
Running ==
    IF pc = "find" THEN <<f>> ELSE IF pc = "print_find" THEN <<pf>> ELSE <<>>

\* At the test of the outer loop every queued entry is curr_depth steps
\* from the root; inside a pass the n entries still to dequeue come first
\* and are curr_depth steps from it, and the entries behind them are the
\* children enqueued during the pass, one step further.
LevelInvariant(fr) ==
    /\ fr.at = "while" =>
            /\ \A i \in 1..Len(fr.queue) : Level(fr.queue[i]) = fr.curr_depth
            /\ fr.curr_depth = 0 => fr.queue = <<finder.directory>>
    /\ fr.at = "for" =>
            /\ fr.n \in 1..Len(fr.queue)
            /\ \A i \in 1..Len(fr.queue) :
                    Level(fr.queue[i]) = IF i <= fr.n THEN fr.curr_depth
                                         ELSE fr.curr_depth + 1

\* C15: at the start of every pass of the outer loop each queued entry is
\* exactly curr_depth enumeration steps from the root (the root alone at
\* curr_depth 0); the inner loop dequeues the n entries queued at the start
\* of the pass and no other: the children enqueued during the pass stay
\* behind them until curr_depth has been incremented.
C15_LevelInvariant == \A i \in 1..Len(Running) : LevelInvariant(Running[i])

\* find is inside the pass of curr_depth 1: entries of that level are
\* still to be dequeued, and children of the next level are queued behind.
C15_Witness ==
    /\ pc = "find" /\ f.at = "for" /\ f.curr_depth = 1
    /\ f.n < Len(f.queue)
    /\ Level(f.queue[1]) = 1 /\ Level(f.queue[Len(f.queue)]) = 2

\* In the invocations a frame has made, the one at place k, of the i-th
\* predicate on some file, comes after an invocation of each earlier
\* predicate on that file, the nearest being right before it.
InRegistrationOrder(fr) ==
    \A k \in 1..Len(fr.calls) :
        LET i == fr.calls[k][1]
            file == fr.calls[k][2]
        IN  /\ i \in 1..Len(finder.filters)
            /\ \A j \in 1..(i - 1) : \E m \in 1..(k - 1) : fr.calls[m] = <<j, file>>
            /\ i > 1 => fr.calls[k - 1] = <<i - 1, file>>

\* C16: on every file the predicates are invoked in the order of their
\* registration: a predicate is invoked on a file only after every
\* predicate registered before it has been invoked on that file.
C16_EvaluationOrder == \A i \in 1..Len(Running) : InRegistrationOrder(Running[i])

\* find has invoked two predicates of different kinds on one file, and on
\* another file the first predicate alone.
C16_Witness ==
    /\ pc = "find" /\ Len(finder.filters) = 2
    /\ finder.filters[1].kind # finder.filters[2].kind
    /\ \E p, q \in Tested(f) :
            /\ p # q
            /\ \E k \in 1..Len(f.calls) : f.calls[k] = <<2, p>>
            /\ \A k \in 1..Len(f.calls) : f.calls[k] # <<2, q>>

\* The passes of the outer loop are those of curr_depth 0 .. depth + 1.
PassesBounded(fr) ==
    /\ fr.curr_depth <= depth + 2
    /\ fr.at = "for" => fr.curr_depth <= depth + 1

\* A terminal operation has been called and has not returned.
InCall ==
    \/ pc = "find" /\ ~Returned(f)
    \/ pc = "print_find" /\ ~Returned(pf)

\* C17: find and print_find, once called, return Ok or Err, on every tree
\* of the model, the tree with a symbolic link cycle included; the outer
\* loop makes at most depth + 2 passes.
C17_Termination ==
    /\ [](/\ PassesBounded(f) /\ PassesBounded(pf)
          /\ \A fr \in {f, pf} : Returned(fr) => fr.ret.tag \in {"Ok", "Err"})
    /\ InCall ~> ~InCall

\* find returned on the tree whose r/d is a link to r, after depth + 2
\* passes, having enumerated the root through the link.
C17_Witness ==
    /\ FindReturned /\ fs.link # 0 /\ depth >= 1
    /\ f.curr_depth = depth + 2
    /\ Spine(1) \in ReadDirs(f)

\* No path of the sequence lies under more nested subdirectories of the
\* root than a path after it.
ByLevel(paths) ==
    \A i, j \in 1..Len(paths) : i < j => Nesting(paths[i]) <= Nesting(paths[j])

\* C18: in the list find collects and returns, and in the lines print_find
\* prints, a file under fewer nested subdirectories of the root comes
\* before every file under more: the matches of one level are all emitted
\* before any match of the next.
C18_BreadthFirstOrder ==
    /\ pc = "find" => (ByLevel(f.result) /\ ByLevel(f.ret.files))
    /\ pc = "print_find" => ByLevel([i \in 1..Len(pf.out) |-> Printed(pf.out[i])])

\* find returned files of two levels from a tree whose directories list
\* their subdirectory before their files.
C18_Witness ==
    /\ FindReturned /\ f.ret.tag = "Ok"
    /\ fs.listing[1] = DirName
    /\ \E i, j \in 1..Len(f.ret.files) :
            Nesting(f.ret.files[i]) < Nesting(f.ret.files[j])

NoRepeat(seq) == \A i, j \in 1..Len(seq) : i < j => seq[i] # seq[j]

\* The paths of the filesystem calls `call` of a frame, in order.
PathsOf(fr, call) ==
    LET at == SelectSeq([i \in 1..Len(fr.sys) |-> i], LAMBDA i : fr.sys[i][1] = call)
    IN  [k \in 1..Len(at) |-> fr.sys[at[k]][2]]

\* The enqueues of a frame: <<0, 0, root>> once the root is known to
\* exist, and <<k, i, child>> for the i-th entry read from the k-th
\* directory enumerated.
Enqueues(fr) ==
    LET dirs == PathsOf(fr, "read_dir")
    IN  (IF fr.at = "start" \/ fr.ret.kind = "NotFound" THEN {}
         ELSE {<<0, 0, finder.directory>>})
        \cup UNION {LET e == ReadDir(fs, dirs[k]).entries
                    IN  {<<k, i, e[i]>> : i \in 1..Len(e)} : k \in 1..Len(dirs)}

\* No path string is enqueued twice, dequeued twice or enumerated twice by
\* the frame, and every enqueue is either still queued or was dequeued.
NoDuplicates(fr) ==
    LET enqueues == Enqueues(fr)
        dequeued == PathsOf(fr, "is_dir")
    IN  /\ \A a, b \in enqueues : a[3] = b[3] => a = b
        /\ Cardinality(enqueues) = Len(dequeued) + Len(fr.queue)
        /\ NoRepeat(fr.queue)
        /\ NoRepeat(dequeued)
        /\ NoRepeat(PathsOf(fr, "read_dir"))

\* C19: in a traversal each path string is enqueued at most once and each
\* directory path is enumerated at most once, and the list find collects
\* and returns (as the lines print_find prints) holds no path string twice.
C19_NoDuplicates ==
    [](
        /\ \A i \in 1..Len(Running) : NoDuplicates(Running[i])
        /\ pc = "find" => (NoRepeat(f.result) /\ NoRepeat(f.ret.files))
        /\ pc = "print_find" => NoRepeat(pf.out)
    )

\* find returned two files or more from the tree with the cycle, having
\* enumerated the root directory under two path strings.
C19_Witness ==
    /\ FindReturned /\ f.ret.tag = "Ok" /\ Len(f.ret.files) >= 2
    /\ fs.link # 0
    /\ {finder.directory, Spine(1)} \subseteq ReadDirs(f)

\* Every predicate of the chain accepts path string s.
PassesChain(s) ==
    \A i \in 1..Len(finder.filters) : Apply(fs, finder.filters[i], s).val

\* C20: when the root is a regular file, find enumerates nothing and
\* returns Ok, with the root path alone if it passes the predicate chain
\* and with an empty list otherwise, whatever the depth; it returns no
\* error, and Config::new accepts the root.
C20_RootIsFile ==
    Kind(fs, Root) = "file" =>
        /\ FindReturned =>
                /\ ReadDirs(f) = {}
                /\ f.ret = OkFiles(IF PassesChain(Root) THEN <<Root>> ELSE <<>>)
        /\ f.ret.tag # "Err"
        /\ caller = "cli" => exitCode # 1

\* find(1) returned the root, a regular file, which passed a predicate.
C20_Witness ==
    /\ FindReturned /\ Kind(fs, Root) = "file" /\ depth = MaxDepth
    /\ finder.filters # <<>>
    /\ f.ret.files = <<Root>>

-----------------------------------------------------------------------------
(* Properties of a traversal under concurrent removal (RaceSpec).          *)

\* The other process has removed p, or a directory above it.
IsRemoved(p) == \E i \in 1..Len(removed) : AtOrBelow(p, removed[i])

\* The entry at the head of the queue was removed while it was queued: it
\* is being dequeued and its classification (is_dir, then is_file) is not
\* finished.
Gone(fr) ==
    /\ fr.at \in {"for", "else"}
    /\ IsRemoved(Head(fr.queue))

\* The step from fr to fr2 passes over the entry at the head of the queue:
\* it is not taken for a directory or a file, no read_dir call is made, no
\* predicate is invoked, the operation does not return, and once is_file
\* has answered the entry leaves the queue with nothing enqueued for it.
Skips(fr, fr2) ==
    /\ fr2.at \notin {"dir", "file", "ret"}
    /\ fr2.ret = fr.ret
    /\ fr2.calls = fr.calls
    /\ ReadDirs(fr2) = ReadDirs(fr)
    /\ fr.at = "else" => fr2.queue = Tail(fr.queue)

\* The directory at the head of the queue was removed after is_dir
\* returned true for it and before read_dir is called on it.
Lost(fr) ==
    /\ fr.at = "dir"
    /\ IsRemoved(Head(fr.queue))

\* The root was removed after the existence check, and the traversal has
\* found nothing and enumerated nothing since.
RootSkipped(fr, emitted) ==
    /\ IsRemoved(finder.directory)
    /\ fr.at \in {"while", "for", "else"}
    /\ fr.queue \in {<<>>, <<finder.directory>>}
    /\ emitted = <<>> /\ fr.calls = <<>> /\ ReadDirs(fr) = {}

\* C21: an entry removed by another process after it was enqueued and
\* before its classification is finished is passed over by find and by
\* print_find: it is not returned or printed and the operation does not
\* return an error for it; when this entry is the root, removed right after
\* the existence check, the operation returns Ok with no match.  A
\* directory removed after is_dir returned true for it and before its
\* read_dir makes the operation return Err.
C21_ConcurrentRemoval ==
    /\ []( /\ (pc = "find" /\ f.sys = <<<<"exists", finder.directory>>>>
                /\ ~Returned(f) /\ IsRemoved(finder.directory))
                    => RootSkipped(f, f.result)
           /\ (pc = "print_find" /\ pf.sys = <<<<"exists", finder.directory>>>>
                /\ ~Returned(pf) /\ IsRemoved(finder.directory))
                    => RootSkipped(pf, pf.out) )
    /\ [][ /\ (pc = "find" /\ f' # f) =>
                /\ Gone(f) => Skips(f, f') /\ f'.result = f.result
                /\ Lost(f) => Returned(f') /\ f'.ret = Err("Io")
                /\ RootSkipped(f, f.result) =>
                        \/ RootSkipped(f', f'.result)
                        \/ Returned(f') /\ f'.ret = OkFiles(<<>>)
           /\ (pc = "print_find" /\ pf' # pf) =>
                /\ Gone(pf) => Skips(pf, pf') /\ pf'.out = pf.out
                /\ Lost(pf) => Returned(pf') /\ pf'.ret = Err("Io")
                /\ RootSkipped(pf, pf.out) =>
                        \/ RootSkipped(pf', pf'.out)
                        \/ Returned(pf') /\ pf'.ret = OkUnit /\ pf'.out = <<>>
         ]_vars

\* find(1) returned Ok with r/f.r: r/d, a directory that read_dir listed,
\* was removed while queued, and was passed over when dequeued.
C21_Witness ==
    /\ FindReturned /\ depth = MaxDepth /\ finder.filters = <<>>
    /\ removed = <<Join(Root, DirName)>>
    /\ <<"read_dir", Root>> \in Range(f.sys)
    /\ <<"is_file", Join(Root, DirName)>> \in Range(f.sys)
    /\ <<"read_dir", Join(Root, DirName)>> \notin Range(f.sys)
    /\ f.ret.tag = "Ok"
    /\ Join(Root, NameF) \in Range(f.ret.files)

=============================================================================
